---- MODULE Spec2Model ----
(***************************************************************************)
(* State-machine model of the streaming playback engine of lyria-dj:       *)
(*   src/src/services/LiveMusicService.js   (LiveMusicService)             *)
(*   src/src/services/SimpleSynthService.js (SimpleSynthService, fallback) *)
(*                                                                         *)
(* JavaScript runs the handlers on one thread.  A macrotask (a user call,  *)
(* a timer, a WebSocket callback, the settling of the connect promise) is  *)
(* one action.  A continuation that awaits the connect promise is a task;  *)
(* once the promise has settled the task is runnable and runs (as a        *)
(* microtask) before any further macrotask.  The awaits on the session's   *)
(* own methods (setWeightedPrompts, play) and on the audio context only    *)
(* write to the socket / the context and settle in a microtask: they are   *)
(* part of the continuation that makes them.                               *)
(***************************************************************************)
EXTENDS Integers, Sequences, FiniteSets, TLC

\* ---------------------------------------------------------------- bounds
MaxConns == 1        \* connections that exist at the same time
MaxTimers == 2       \* reconnect timers armed at the same time
MaxLookahead == 1    \* lookahead timers armed at the same time
MaxTasks == 1        \* continuations suspended on a connect promise
MaxIntervals == 2    \* step-clock intervals of the fallback synth
MaxStart == 16       \* how far nextStartTime runs ahead of the clock (tenths)
MaxNow == 20         \* largest time of the output device (tenths)
MaxChunks == 3       \* chunks scheduled between two resets
MaxDuration == 2     \* longest decoded chunk (tenths)

\* ------------------------------------------------------ program constants
maxRetries == 5
bufferTime == 15     \* 1.5 s, in tenths of a second
DefaultTempo == 90
DefaultLevel == 5    \* 0.5, in tenths
Tolerance == 1       \* 0.1 s, in tenths of a second

NONE == 0 - 1        \* undefined (a config field that is absent)
Texts == {"a", "b"}
Weights == {0, 1}
Prompt == [text : Texts, weight : Weights]
PromptSets == {<<>>} \cup {<<p>> : p \in Prompt}
                \cup {<<p, q>> : p \in {x \in Prompt : x.text = "a"},
                                 q \in {x \in Prompt : x.text = "b"}}
Tempos == {120}
Levels == {8}
Configs == {[brightness |-> b, density |-> NONE] : b \in Levels}
             \cup {[brightness |-> NONE, density |-> d] : d \in Levels}
ChunkDuration == 1   \* duration of a decoded chunk, tenths of a second
Durations == 1..MaxDuration
Steps == {1, 6}
MaxMessage == 2
Chunks == {[data |-> "pcm", duration |-> ChunkDuration],
           [data |-> "malformed", duration |-> 0],
           [data |-> "", duration |-> 0]}
MaxLen == 3
Chars == {" ", "'", "a"}
Strings == UNION {[1..n -> Chars] : n \in 0..MaxLen}
ReplyTexts == {<<>>, <<"a">>, <<" ", "'", "a", "'">>}
\* What ai.models.generateContent gives: a rejection, or a result whose text
\* is a method, a method of result.response, a string property, a property
\* that is not a string, or absent
Replies ==
    {[kind |-> k, text |-> <<>>] : k \in {"reject", "number", "absent"}}
       \cup {[kind |-> k, text |-> t] :
                k \in {"textFn", "responseTextFn", "text"}, t \in ReplyTexts}
Messages == UNION {[1..n -> Chunks] : n \in 1..MaxMessage}      \* how far the clock moves between two events

VARIABLES
    svc,     \* the fields of the LiveMusicService singleton
    fb,      \* the fields of the SimpleSynthService singleton
    conns,   \* the connections ai.live.music.connect has returned
    rtimers, \* armed reconnect timers (their delays, in arming order)
    ltimers, \* armed lookahead timers
    tasks,   \* continuations suspended on a connect promise
    params,  \* the last tempo / density / brightness the caller passed
    out,     \* what the last macrotask did: calls, events, sends, in order
    watch,   \* the kinds of entry `out` records (fixed by Init)
    now,     \* audioContext.currentTime, in tenths of a second
    sched    \* the chunks started since the last pause() / stop()

vars == <<svc, fb, conns, rtimers, ltimers, tasks, params, out, watch, now, sched>>

ConnIds == 1..MaxConns
FreeConn == [st |-> "free", alive |-> FALSE, err |-> FALSE, setup |-> FALSE]

\* The world a handler runs in; a handler is a function from world to world.
\* thrown: an exception is propagating.  full: the handler needed a
\* connection slot and none was free.
World ==
    [svc |-> svc, fb |-> fb, conns |-> conns, rtimers |-> rtimers,
     ltimers |-> ltimers, tasks |-> tasks, params |-> params,
     sched |-> sched, out |-> <<>>, thrown |-> FALSE, full |-> FALSE]

Note(w, e) == IF e[1] \in watch THEN [w EXCEPT !.out = Append(@, e)] ELSE w
Throw(w) == [w EXCEPT !.thrown = TRUE]
Caught(w) == [w EXCEPT !.thrown = FALSE]

\* EventTarget.dispatchEvent on the LiveMusicService
dispatchEvent(w, type, detail) == Note(w, <<"event", type, detail>>)

\* A method of the remote session object of connection c, called by the
\* method `by` of the service.  It writes one message to the socket (a
\* write to a socket that has closed is dropped) and does not throw.
SessionCall(w, c, op, arg, by) == Note(w, <<"send", op, c, arg, by>>)

\* ------------------------------------------------- SimpleSynthService
fbSetPlaybackState(w, state) ==
    Note([w EXCEPT !.fb.playbackState = state],
         <<"fbevent", "playback-state-changed", state>>)

\* stepDuration * 1000 of startLoop, 60 / tempo / 4 seconds, in microseconds
StepDuration(tempo) == 15000000 \div tempo

\* startLoop does not clear the interval loopInterval may still hold: the
\* handle is overwritten and that timer keeps running.  `periods` lists the
\* running step timers, the one loopInterval holds last.
fbStartLoop(w) ==
    IF ~w.fb.audioContext THEN w
    ELSE [w EXCEPT !.fb.loopInterval = TRUE, !.fb.intervals = @ + 1,
                   !.fb.periods = Append(@, StepDuration(w.fb.tempo))]

fbStopLoop(w) ==
    IF w.fb.loopInterval
    THEN [w EXCEPT !.fb.loopInterval = FALSE, !.fb.intervals = @ - 1,
                   !.fb.periods = SubSeq(@, 1, Len(@) - 1)]
    ELSE w

fbPlay(w) ==
    fbStartLoop(fbSetPlaybackState([w EXCEPT !.fb.audioContext = TRUE], "playing"))

fbPause(w) == fbSetPlaybackState(fbStopLoop(w), "paused")

fbStop(w) == fbSetPlaybackState(fbStopLoop(w), "stopped")

fbPlayPause(w) ==
    IF w.fb.playbackState = "playing" THEN fbPause(w) ELSE fbPlay(w)

fbSetTempo(w, newTempo) ==
    LET w1 == [w EXCEPT !.fb.tempo = newTempo]
    IN IF w1.fb.playbackState = "playing" THEN fbStartLoop(fbStopLoop(w1)) ELSE w1

fbSetParameters(w, config) ==
    LET w1 == IF config.brightness # NONE
              THEN [w EXCEPT !.fb.brightness = config.brightness] ELSE w
    IN IF config.density # NONE
       THEN [w1 EXCEPT !.fb.density = config.density] ELSE w1

fbSetWeightedPrompts(w, prompts) == Note(w, <<"fb", "setWeightedPrompts", prompts>>)

\* --------------------------------------------------- LiveMusicService
\* String.prototype.trim on a string of Chars
RECURSIVE TrimStart(_)
TrimStart(str) ==
    IF str # <<>> /\ Head(str) = " " THEN TrimStart(Tail(str)) ELSE str

RECURSIVE TrimEnd(_)
TrimEnd(str) ==
    IF str # <<>> /\ str[Len(str)] = " "
    THEN TrimEnd(SubSeq(str, 1, Len(str) - 1)) ELSE str

Trim(str) == TrimEnd(TrimStart(str))

\* str.replace(/^["']|["']$/g, ''): one quote at the start and one at the
\* end are removed
StripQuotes(str) ==
    LET a == IF str # <<>> /\ Head(str) = "'" THEN Tail(str) ELSE str
    IN IF a # <<>> /\ a[Len(a)] = "'" THEN SubSeq(a, 1, Len(a) - 1) ELSE a

\* Mutant of enhancePrompt: a failure of the call is not caught
enhancePromptNoCatch(w, basePrompt, reply) ==
    LET w1 == Note(w, <<"call", "enhancePrompt",
                       [ai |-> w.svc.ai, basePrompt |-> basePrompt, reply |-> reply]>>)
    IN IF ~w1.svc.ai THEN Note(w1, <<"ret", "enhancePrompt", basePrompt>>)
       ELSE IF reply.kind \in {"reject", "number"} THEN Throw(w1)
       ELSE LET enhanced == IF reply.kind \in {"textFn", "responseTextFn"}
                            THEN reply.text
                            ELSE IF reply.kind = "text" /\ reply.text # <<>>
                            THEN reply.text
                            ELSE basePrompt
            IN Note(w1, <<"ret", "enhancePrompt", StripQuotes(Trim(enhanced))>>)

\* enhancePrompt(basePrompt) with the outcome `reply` of generateContent;
\* the call and its continuation are one step
enhancePrompt(w, basePrompt, reply) ==
    LET w1 == Note(w, <<"call", "enhancePrompt",
                       [ai |-> w.svc.ai, basePrompt |-> basePrompt, reply |-> reply]>>)
    IN IF ~w1.svc.ai THEN Note(w1, <<"ret", "enhancePrompt", basePrompt>>)
       ELSE IF reply.kind = "reject"
       THEN Note(Caught(Throw(w1)), <<"ret", "enhancePrompt", basePrompt>>)
       ELSE IF reply.kind = "number"
       THEN \* enhanced.trim is not a function: the TypeError is caught
            Note(Caught(Throw(w1)), <<"ret", "enhancePrompt", basePrompt>>)
       ELSE LET enhanced == IF reply.kind \in {"textFn", "responseTextFn"}
                            THEN reply.text
                            ELSE IF reply.kind = "text" /\ reply.text # <<>>
                            THEN reply.text
                            ELSE basePrompt
            IN Note(w1, <<"ret", "enhancePrompt", StripQuotes(Trim(enhanced))>>)

\* Mutant of setPlaybackState: no event
setPlaybackStateSilent(w, state) == [w EXCEPT !.svc.playbackState = state]

setPlaybackState(w, state) ==
    dispatchEvent([w EXCEPT !.svc.playbackState = state],
                  "playback-state-changed", state)

\* The lowest free connection slot, 0 when every slot is taken
NewConn(w) ==
    IF \E c \in ConnIds : w.conns[c].st = "free"
    THEN CHOOSE c \in ConnIds :
            /\ w.conns[c].st = "free"
            /\ \A d \in ConnIds : w.conns[d].st = "free" => c <= d
    ELSE 0

\* connect() with this.ai set: ai.live.music.connect() returns a pending
\* promise, which connect() stores in sessionPromise and returns
connect(w) ==
    LET c == NewConn(w)
    IN IF c = 0 THEN [w EXCEPT !.full = TRUE]
       ELSE Note([w EXCEPT !.conns[c] = [st |-> "pending", alive |-> TRUE,
                                         err |-> FALSE, setup |-> FALSE],
                           !.svc.sessionPromise = c],
                 <<"connect", c>>)

Suspend(w, task) == [w EXCEPT !.tasks = @ \cup {task}]

ActivePromptsAnyWeight(w, prompts) ==
    SelectSeq(prompts, LAMBDA p : p.text \notin w.svc.filteredPrompts)

ActivePrompts(w, prompts) ==
    SelectSeq(prompts, LAMBDA p : p.text \notin w.svc.filteredPrompts /\ p.weight > 0)

\* Mutant of pause: the session is dropped, as stop() does
pauseDropsSession(w0) ==
    LET w == [w0 EXCEPT !.sched = <<>>]
    IN
    IF w.svc.useFallback THEN fbPause(w)
    ELSE LET w1 == IF w.svc.session # 0
                   THEN SessionCall(w, w.svc.session, "pause", <<>>, "pause") ELSE w
             w2 == setPlaybackState(w1, "paused")
         IN IF ~w2.svc.audioContext THEN Throw(w2)
            ELSE [w2 EXCEPT !.svc.nextStartTime = 0,
                            !.svc.session = 0,
                            !.svc.sessionPromise = 0]

pause(w0) ==
    LET w == [w0 EXCEPT !.sched = <<>>]
    IN
    IF w.svc.useFallback THEN fbPause(w)
    ELSE LET w1 == IF w.svc.session # 0
                   THEN SessionCall(w, w.svc.session, "pause", <<>>, "pause") ELSE w
         IN IF w1.thrown THEN w1
            ELSE LET w2 == setPlaybackState(w1, "paused")
                 IN \* this.outputNode is null until ensureAudioContext has run
                    IF ~w2.svc.audioContext THEN Throw(w2)
                    ELSE [w2 EXCEPT !.svc.nextStartTime = 0]

stop(w0) ==
    LET w == [w0 EXCEPT !.sched = <<>>]
    IN
    IF w.svc.useFallback THEN fbStop(w)
    ELSE LET w1 == IF w.svc.session # 0
                   THEN SessionCall(w, w.svc.session, "stop", <<>>, "stop") ELSE w
         IN IF w1.thrown THEN w1
            ELSE [setPlaybackState(w1, "stopped") EXCEPT
                      !.svc.nextStartTime = 0,
                      !.svc.session = 0,
                      !.svc.sessionPromise = 0]

setWeightedPromptsBodyNoGuard(w, prompts) ==
    LET w1 == [w EXCEPT !.svc.prompts = prompts]
        activePrompts == ActivePrompts(w1, prompts)
    IN IF w1.svc.useFallback THEN fbSetWeightedPrompts(w1, prompts)
       ELSE IF w1.svc.session = 0 THEN w1
       ELSE LET w2 == SessionCall(w1, w1.svc.session, "setWeightedPrompts",
                                  activePrompts, "setWeightedPrompts")
            IN IF w2.thrown
               THEN pause(dispatchEvent(Caught(w2), "error", "set prompts failed"))
               ELSE w2

setWeightedPromptsBody(w, prompts) ==
    LET w1 == [w EXCEPT !.svc.prompts = prompts]
        activePrompts == ActivePrompts(w1, prompts)
    IN IF w1.svc.useFallback THEN fbSetWeightedPrompts(w1, prompts)
       ELSE IF Len(activePrompts) = 0 /\ w1.svc.playbackState = "playing"
       THEN pause(dispatchEvent(w1, "error", "At least one active prompt is required."))
       ELSE IF w1.svc.session = 0 THEN w1
       ELSE LET w2 == SessionCall(w1, w1.svc.session, "setWeightedPrompts",
                                  activePrompts, "setWeightedPrompts")
            IN IF w2.thrown
               THEN pause(dispatchEvent(Caught(w2), "error", "set prompts failed"))
               ELSE w2

\* setWeightedPrompts(prompts); `out` brackets it with the state it is
\* entered in and the state it returns in
setWeightedPrompts(w, prompts) ==
    LET w1 == setWeightedPromptsBody(
                  Note(w, <<"call", "setWeightedPrompts",
                            [session |-> w.svc.session,
                             useFallback |-> w.svc.useFallback,
                             playbackState |-> w.svc.playbackState,
                             filteredPrompts |-> w.svc.filteredPrompts,
                             prompts |-> prompts]>>),
                  prompts)
    IN Note(w1, <<"ret", "setWeightedPrompts", w1.svc.playbackState>>)

setTempo(w, bpm) ==
    LET w1 == [w EXCEPT !.params.tempo = bpm]
    IN IF w1.svc.useFallback THEN fbSetTempo(w1, bpm) ELSE w1

setMusicConfig(w, config) ==
    LET w1 == [w EXCEPT
                 !.params.brightness =
                     IF config.brightness # NONE THEN config.brightness ELSE @,
                 !.params.density =
                     IF config.density # NONE THEN config.density ELSE @]
    IN IF w1.svc.useFallback THEN fbSetParameters(w1, config)
       ELSE IF w1.svc.session = 0 THEN w1
       ELSE Caught(SessionCall(w1, w1.svc.session, "setMusicGenerationConfig", config,
                               "setMusicConfig"))

\* handleFinalFailure up to the reset of the output node
switchToFallback(w, reason) ==
    LET w1 == Note(w, <<"call", "handleFinalFailure", w.svc.playbackState>>)
        w2 == [w1 EXCEPT !.svc.useFallback = TRUE,
                         !.svc.activeEngine = "fallback",
                         !.svc.retryCount = 0,
                         !.svc.isReconnecting = FALSE]
        w3 == dispatchEvent(dispatchEvent(w2, "engine-changed", "fallback"),
                            "error", reason)
        w4 == IF w3.svc.session # 0
              THEN \* try { this.session.stop() } catch { }
                   [Caught(SessionCall(w3, w3.svc.session, "stop", <<>>,
                                       "handleFinalFailure")) EXCEPT
                        !.svc.session = 0, !.svc.sessionPromise = 0]
              ELSE w3
    IN [w4 EXCEPT !.svc.nextStartTime = 0]

\* Mutant of handleFinalFailure: PlaybackState is kept when the fallback is
\* not started
handleFinalFailureKeepsState(w, reason) ==
    LET w5 == switchToFallback(w, reason)
    IN IF w5.svc.playbackState \in {"playing", "loading"}
       THEN setPlaybackState(fbPlay(fbSetWeightedPrompts(w5, w5.svc.prompts)), "playing")
       ELSE w5

handleFinalFailure(w, reason) ==
    LET w5 == switchToFallback(w, reason)
    IN IF w5.svc.playbackState \in {"playing", "loading"}
       THEN setPlaybackState(fbPlay(fbSetWeightedPrompts(w5, w5.svc.prompts)), "playing")
       ELSE setPlaybackState(w5, "stopped")

\* Mutant of Delay: the exponent is the incremented count
DelayFromCount(retryCount) == (2 ^ retryCount) * 1000

\* Math.pow(2, retryCount - 1) * 1000
Delay(retryCount) == (2 ^ (retryCount - 1)) * 1000

attemptAutoReconnect(w, reason) ==
    IF w.svc.isReconnecting THEN w
    ELSE LET w1 == [w EXCEPT !.svc.isReconnecting = TRUE,
                             !.svc.retryCount = @ + 1]
             delay == Delay(w1.svc.retryCount)
             w2 == dispatchEvent(w1, "reconnecting",
                       [attempt |-> w1.svc.retryCount, max |-> maxRetries,
                        delay |-> delay])
         IN \* setTimeout(..., delay)
            Note([w2 EXCEPT !.rtimers = Append(@, delay)], <<"setTimeout", "reconnect", delay>>)

\* Mutant of handleConnectionFailure: the session reference is kept
handleConnectionFailureKeepsSession(w, reason) ==
    LET w1 == Note(w, <<"call", "handleConnectionFailure", w.svc.retryCount,
                        w.svc.isReconnecting>>)
    IN IF w1.svc.retryCount >= maxRetries
       THEN handleFinalFailure(w1, reason)
       ELSE attemptAutoReconnect(w1, reason)

handleConnectionFailure(w, reason) ==
    LET w1 == Note([w EXCEPT !.svc.session = 0, !.svc.sessionPromise = 0],
                   <<"call", "handleConnectionFailure", w.svc.retryCount,
                     w.svc.isReconnecting>>)
    IN IF w1.svc.retryCount >= maxRetries
       THEN handleFinalFailure(w1, reason)
       ELSE attemptAutoReconnect(w1, reason)

PlayTask(c) == [k |-> "play", c |-> c, wasPlaying |-> FALSE, timer |-> FALSE]

\* play(), catch block: an error event, then stop()
playCatch(w) ==
    stop(dispatchEvent(Caught(w), "error", "Failed to start"))

\* Mutant of playResume: the stored prompts are not sent before play
playResumeSkipsPrompts(w, c) ==
    LET w1 == Note([w EXCEPT !.svc.session = c], <<"resume", "play", c>>)
        w3 == SessionCall(w1, c, "play", <<>>, "play")
    IN IF w3.thrown THEN playCatch(w3) ELSE w3

\* play() after `this.session = await this.getSession()` has resolved with
\* the session of connection c
playResume(w, c) ==
    LET w1 == Note([w EXCEPT !.svc.session = c], <<"resume", "play", c>>)
        w2 == IF Len(w1.svc.prompts) > 0
              THEN SessionCall(w1, c, "setWeightedPrompts", w1.svc.prompts, "play")
              ELSE w1
    IN IF w2.thrown THEN playCatch(w2)
       ELSE LET w3 == SessionCall(w2, c, "play", <<>>, "play")
            IN IF w3.thrown THEN playCatch(w3) ELSE w3

\* `await this.getSession()` made by the continuation `task`: getSession()
\* connects when there is no sessionPromise; the await suspends the task
\* while the promise is pending.  Returns the world and what the await gave:
\* "resolved", "rejected" or "suspended".
AwaitSession(w, task) ==
    IF w.svc.sessionPromise = 0
    THEN IF ~w.svc.ai
         THEN \* connect() throws: sessionPromise is a rejected promise
              [w |-> [w EXCEPT !.svc.sessionPromise = NONE], r |-> "rejected", c |-> 0]
         ELSE LET w1 == connect(w)
              IN [w |-> Suspend(w1, [task EXCEPT !.c = w1.svc.sessionPromise]),
                  r |-> "suspended", c |-> w1.svc.sessionPromise]
    ELSE LET c == w.svc.sessionPromise
         IN IF c = NONE THEN [w |-> w, r |-> "rejected", c |-> 0]
            ELSE IF w.conns[c].st = "open" THEN [w |-> w, r |-> "resolved", c |-> c]
            ELSE IF w.conns[c].st = "rejected" THEN [w |-> w, r |-> "rejected", c |-> c]
            ELSE [w |-> Suspend(w, [task EXCEPT !.c = c]), r |-> "suspended", c |-> c]

play(w) ==
    LET w0 == Note([w EXCEPT !.svc.audioContext = TRUE], <<"call", "play">>)
    IN IF w0.svc.useFallback THEN fbPlay(w0)
       ELSE LET a == AwaitSession(setPlaybackState(w0, "loading"), PlayTask(0))
            IN CASE a.r = "resolved" -> playResume(a.w, a.c)
                 [] a.r = "rejected" -> playCatch(a.w)
                 [] OTHER -> a.w

playPause(w) ==
    IF w.svc.useFallback THEN fbPlayPause(w)
    ELSE CASE w.svc.playbackState = "playing" -> pause(w)
           [] w.svc.playbackState \in {"paused", "stopped"} -> play(w)
           [] OTHER -> stop(w)

\* What the caller of reconnect() does with its result: the timer callback
\* of attemptAutoReconnect handles a failure, the Reconnect button does not
reconnectReturn(w, success, timer) ==
    LET w1 == Note(Caught(w), <<"return", "reconnect", success>>)
    IN IF timer /\ ~success
       THEN handleConnectionFailure(w1, "Reconnect attempt failed to return success")
       ELSE w1

\* reconnect() after `this.session = await this.getSession()`
reconnectResume2(w, task, c) ==
    LET w1 == SessionCall([w EXCEPT !.svc.session = c], c, "play", <<>>, "reconnect")
    IN IF w1.thrown THEN reconnectReturn(w1, FALSE, task.timer)
       ELSE reconnectReturn(setPlaybackState(w1, "playing"), TRUE, task.timer)

\* reconnect() after `await this.connect()` has resolved
reconnectResume1(w, task) ==
    LET w1 == setWeightedPrompts(Note(w, <<"resume", "reconnect", task.c>>),
                                 w.svc.prompts)
    IN IF w1.thrown THEN reconnectReturn(w1, FALSE, task.timer)
       ELSE IF task.wasPlaying /\ w1.svc.session # 0
       THEN LET a == AwaitSession(w1, [task EXCEPT !.k = "rc2"])
            IN CASE a.r = "resolved" -> reconnectResume2(a.w, task, a.c)
                 [] a.r = "rejected" -> reconnectReturn(a.w, FALSE, task.timer)
                 [] OTHER -> a.w
       ELSE reconnectReturn(w1, TRUE, task.timer)

\* Mutant of reconnect: the registry of filtered prompts is emptied
reconnectClearsFilter(w, timer) ==
    LET wasPlaying == w.svc.playbackState = "playing"
        w1 == Note([w EXCEPT !.svc.sessionPromise = 0,
                             !.svc.session = 0,
                             !.svc.filteredPrompts = {}],
                   <<"call", "reconnect", timer>>)
    IN IF ~w1.svc.ai THEN reconnectReturn(w1, FALSE, timer)
       ELSE LET w2 == connect(w1)
            IN Suspend(w2, [k |-> "rc1", c |-> w2.svc.sessionPromise,
                            wasPlaying |-> wasPlaying, timer |-> timer])

reconnect(w, timer) ==
    LET wasPlaying == w.svc.playbackState = "playing"
        w1 == Note([w EXCEPT !.svc.sessionPromise = 0,
                             !.svc.session = 0],
                   <<"call", "reconnect", timer>>)
    IN \* this.fallbackService is never assigned: the stop of the fallback
       \* is skipped
       IF ~w1.svc.ai THEN reconnectReturn(w1, FALSE, timer)
       ELSE LET w2 == connect(w1)
            IN Suspend(w2, [k |-> "rc1", c |-> w2.svc.sessionPromise,
                            wasPlaying |-> wasPlaying, timer |-> timer])

\* The callback attemptAutoReconnect passes to setTimeout
reconnectTimer(w) ==
    reconnect([w EXCEPT !.svc.isReconnecting = FALSE], TRUE)

\* Mutants of ChunkStart: no clamp; no queue
ChunkStartNoClamp(nextStartTime, currentTime) == nextStartTime

ChunkStartNow(nextStartTime, currentTime) == currentTime

\* The start of a chunk: nextStartTime, or the current time when
\* nextStartTime has fallen more than the tolerance behind it
ChunkStart(nextStartTime, currentTime) ==
    IF nextStartTime < currentTime - Tolerance THEN currentTime ELSE nextStartTime

\* Mutant of NextStart: the duration is not added
NextStartSame(start, duration) == start

\* nextStartTime after a chunk of `duration` has been started at `start`
NextStart(start, duration) == start + duration

\* processAudioChunks for one chunk with data, at output-device time
\* currentTime
processAudioChunks(w, duration, currentTime) ==
    IF w.svc.playbackState \in {"paused", "stopped"} THEN w
    ELSE LET w1 == IF w.svc.nextStartTime = 0
                   THEN Note([w EXCEPT !.svc.nextStartTime = currentTime + bufferTime,
                                       !.ltimers = @ + 1],
                             <<"setTimeout", "lookahead", bufferTime>>)
                   ELSE w
             start == ChunkStart(w1.svc.nextStartTime, currentTime)
             w2 == Note(w1, <<"start", start, duration>>)
         IN [w2 EXCEPT !.svc.nextStartTime = NextStart(start, duration),
                       !.sched = IF "sched" \in watch
                                 THEN Append(@, [start |-> start, duration |-> duration])
                                 ELSE @]

\* decodeAudioData returns a buffer for well-formed base64 PCM data and
\* throws for data atob or createBuffer rejects
Decodable(chunk) == chunk.data = "pcm"

\* processAudioChunks for the chunks of one message: the loop has no
\* try / catch, the exception of decodeAudioData leaves it and rejects the
\* promise of onmessage
RECURSIVE processAudioMessage(_, _, _)
processAudioMessage(w, audioChunks, currentTime) ==
    IF audioChunks = <<>> \/ w.svc.playbackState \in {"paused", "stopped"} THEN w
    ELSE LET chunk == Head(audioChunks)
         IN IF chunk.data = ""
            THEN processAudioMessage(w, Tail(audioChunks), currentTime)
            ELSE IF ~Decodable(chunk) THEN Throw(w)
            ELSE processAudioMessage(
                     processAudioChunks(w, chunk.duration, currentTime),
                     Tail(audioChunks), currentTime)

\* onmessage for a message with audioChunks
onAudioChunks(w, audioChunks, currentTime) ==
    processAudioMessage(
        Note(w, <<"call", "processAudioChunks",
                  [audioChunks |-> audioChunks,
                   playbackState |-> w.svc.playbackState]>>),
        audioChunks, currentTime)

lookaheadTimer(w) ==
    IF w.svc.playbackState = "loading" THEN setPlaybackState(w, "playing") ELSE w

\* Mutant of onSetupComplete: the retry state is not reset
onSetupCompleteKeepsRetries(w) ==
    dispatchEvent([w EXCEPT !.svc.activeEngine = "lyria",
                            !.svc.useFallback = FALSE],
                  "engine-changed", "lyria")

\* Mutant of onSetupComplete: useFallback is not reset
onSetupCompleteKeepsFallback(w) ==
    dispatchEvent([w EXCEPT !.svc.retryCount = 0,
                            !.svc.isReconnecting = FALSE,
                            !.svc.activeEngine = "lyria"],
                  "engine-changed", "lyria")

onSetupComplete(w) ==
    dispatchEvent([w EXCEPT !.svc.retryCount = 0,
                            !.svc.isReconnecting = FALSE,
                            !.svc.activeEngine = "lyria",
                            !.svc.useFallback = FALSE],
                  "engine-changed", "lyria")

onFilteredPrompt(w, text) ==
    dispatchEvent([w EXCEPT !.svc.filteredPrompts = @ \cup {text}],
                  "filtered-prompt", text)

\* ------------------------------------------------------------ actions
Referenced(w, c) ==
    \/ w.svc.session = c
    \/ w.svc.sessionPromise = c
    \/ \E t \in w.tasks : t.c = c

\* The promise of a socket that closed before it opened never settles: the
\* continuations awaiting it never run.  A connection whose socket is closed
\* and that nothing refers to is gone.
Normalize(w) ==
    LET w1 == [w EXCEPT !.tasks =
                  {t \in @ : ~(w.conns[t.c].st = "pending" /\ ~w.conns[t.c].alive)}]
    IN [w1 EXCEPT !.conns =
          [c \in ConnIds |->
              IF ~w1.conns[c].alive /\ ~Referenced(w1, c) THEN FreeConn
              ELSE w1.conns[c]]]

InBounds(w) ==
    /\ ~w.full
    /\ Len(w.rtimers) <= MaxTimers
    /\ w.ltimers <= MaxLookahead
    /\ Cardinality(w.tasks) <= MaxTasks
    /\ w.fb.intervals <= MaxIntervals
    /\ w.svc.nextStartTime <= now + MaxStart
    /\ Len(w.sched) <= MaxChunks

Commit(w) ==
    LET n == Normalize(w)
    IN /\ InBounds(w)
       /\ svc' = n.svc
       /\ fb' = n.fb
       /\ conns' = n.conns
       /\ rtimers' = n.rtimers
       /\ ltimers' = n.ltimers
       /\ tasks' = n.tasks
       /\ params' = n.params
       /\ out' = (IF n.thrown THEN Note(n, <<"uncaught">>) ELSE n).out
       /\ sched' = n.sched
       /\ UNCHANGED <<watch, now>>

Runnable(t) == conns[t.c].st \in {"open", "rejected"}

\* Microtasks drain before the next macrotask
Idle == \A t \in tasks : ~Runnable(t)

Start(name) == Note(World, <<"op", name>>)

\* init(apiKey) with a key
UserInit ==
    /\ Idle /\ ~svc.ai
    /\ Commit([Start("init") EXCEPT !.svc.ai = TRUE])

UserPlay == Idle /\ Commit(play(Start("play")))

UserEnhancePrompt ==
    /\ Idle
    /\ \E basePrompt \in Strings, reply \in Replies :
          Commit(enhancePrompt(Start("enhancePrompt"), basePrompt, reply))

UserPause == Idle /\ Commit(pause(Start("pause")))

UserStop == Idle /\ Commit(stop(Start("stop")))

UserPlayPause == Idle /\ Commit(playPause(Start("playPause")))

UserSetWeightedPrompts(PS) ==
    /\ Idle
    /\ \E prompts \in PS :
          Commit(setWeightedPrompts(Start("setWeightedPrompts"), prompts))

UserSetTempo ==
    /\ Idle
    /\ \E bpm \in Tempos : Commit(setTempo(Start("setTempo"), bpm))

UserSetMusicConfig ==
    /\ Idle
    /\ \E config \in Configs :
          Commit(setMusicConfig(Start("setMusicConfig"), config))

\* The Reconnect button of App.jsx
UserReconnect == Idle /\ Commit(reconnect(Start("reconnect"), FALSE))

\* The socket opens: the connect promise resolves with the session
ConnResolve ==
    /\ Idle
    /\ \E c \in ConnIds :
          /\ conns[c].st = "pending" /\ conns[c].alive /\ ~conns[c].err
          /\ Commit([Start("resolve") EXCEPT !.conns[c].st = "open"])

\* The connect promise rejects: no socket, no callbacks
ConnReject ==
    /\ Idle
    /\ \E c \in ConnIds :
          /\ conns[c].st = "pending" /\ conns[c].alive /\ ~conns[c].err
          /\ Commit([Start("reject") EXCEPT
                        !.conns[c].st = "rejected", !.conns[c].alive = FALSE])

\* A continuation resumes after the promise it awaits has settled
RunTask ==
    \E t \in tasks :
       /\ Runnable(t)
       /\ LET w == [Start("resume") EXCEPT !.tasks = @ \ {t}]
              ok == conns[t.c].st = "open"
          IN CASE t.k = "play" ->
                    Commit(IF ok THEN playResume(w, t.c) ELSE playCatch(w))
               [] t.k = "rc1" ->
                    Commit(IF ok THEN reconnectResume1(w, t)
                           ELSE reconnectReturn(w, FALSE, t.timer))
               [] OTHER ->
                    Commit(IF ok THEN reconnectResume2(w, t, t.c)
                           ELSE reconnectReturn(w, FALSE, t.timer))

\* WebSocket error event (a close event follows it, nothing else)
OnError ==
    /\ Idle
    /\ \E c \in ConnIds :
          /\ conns[c].alive /\ ~conns[c].err
          /\ Commit(handleConnectionFailure(
                       [Start("onerror") EXCEPT !.conns[c].err = TRUE],
                       "Connection error"))

\* WebSocket close event
OnClose ==
    /\ Idle
    /\ \E c \in ConnIds :
          /\ conns[c].alive
          /\ Commit(handleConnectionFailure(
                       [Start("onclose") EXCEPT !.conns[c].alive = FALSE],
                       "Connection closed"))

Receiving(c) == conns[c].st = "open" /\ conns[c].alive /\ ~conns[c].err

OnSetupComplete ==
    /\ Idle
    /\ \E c \in ConnIds :
          /\ Receiving(c) /\ ~conns[c].setup
          /\ Commit(onSetupComplete(
                       [Start("setupComplete") EXCEPT !.conns[c].setup = TRUE]))

OnFilteredPrompt(TS) ==
    /\ Idle
    /\ \E c \in ConnIds, text \in TS :
          /\ Receiving(c)
          /\ Commit(onFilteredPrompt(Start("filteredPrompt"), text))

OnAudioChunks ==
    /\ Idle
    /\ \E c \in ConnIds :
          /\ Receiving(c)
          /\ Commit(processAudioChunks(Start("audioChunks"), ChunkDuration, now))

\* A message with one chunk of any duration
OnAudioChunk ==
    /\ Idle
    /\ \E c \in ConnIds, duration \in Durations :
          /\ Receiving(c)
          /\ Commit(processAudioChunks(Start("audioChunks"), duration, now))

\* A message with up to MaxMessage chunks, well-formed, malformed or without
\* data
OnAudioMessage ==
    /\ Idle
    /\ \E c \in ConnIds, audioChunks \in Messages :
          /\ Receiving(c)
          /\ Commit(onAudioChunks(Start("audioChunks"), audioChunks, now))

\* The clock of the audio context runs
Tick ==
    /\ Idle
    /\ svc.audioContext
    /\ \E d \in Steps :
          /\ now + d <= MaxNow
          /\ now' = now + d
          /\ out' = <<>>
          /\ UNCHANGED <<svc, fb, conns, rtimers, ltimers, tasks, params, watch, sched>>

ReconnectTimerFires ==
    /\ Idle
    /\ \E i \in 1..Len(rtimers) :
          Commit(reconnectTimer(
                    [Start("reconnectTimer") EXCEPT
                        !.rtimers = SubSeq(@, 1, i - 1) \o SubSeq(@, i + 1, Len(@))]))

LookaheadTimerFires ==
    /\ Idle
    /\ ltimers > 0
    /\ Commit(lookaheadTimer([Start("lookaheadTimer") EXCEPT !.ltimers = @ - 1]))

\* The state after construction
Constructed ==
    /\ svc = [ai |-> FALSE, session |-> 0, sessionPromise |-> 0,
              playbackState |-> "stopped", audioContext |-> FALSE,
              nextStartTime |-> 0, prompts |-> <<>>, filteredPrompts |-> {},
              useFallback |-> FALSE,
              activeEngine |-> "none", retryCount |-> 0,
              isReconnecting |-> FALSE]
    /\ fb = [audioContext |-> FALSE, playbackState |-> "stopped",
             loopInterval |-> FALSE, intervals |-> 0, periods |-> <<>>,
             tempo |-> DefaultTempo,
             brightness |-> DefaultLevel, density |-> DefaultLevel]
    /\ conns = [c \in ConnIds |-> FreeConn]
    /\ rtimers = <<>>
    /\ ltimers = 0
    /\ tasks = {}
    /\ params = [tempo |-> NONE, brightness |-> NONE, density |-> NONE]
    /\ out = <<>>
    /\ now = 0
    /\ sched = <<>>

\* Connection loss and recovery: play / pause / stop against a remote
\* service that opens, fails, closes and answers at any time
Init == Constructed /\ watch = {"op", "call", "event", "setTimeout", "connect", "send"}

Next ==
    \/ UserInit
    \/ UserPlay
    \/ UserPause
    \/ UserStop
    \/ ConnResolve
    \/ ConnReject
    \/ RunTask
    \/ OnError
    \/ OnClose
    \/ OnSetupComplete
    \/ OnAudioChunks
    \/ ReconnectTimerFires
    \/ LookaheadTimerFires

Spec == Init /\ [][Next]_vars

\* Parameters and the switch to the fallback engine: tempo and config
\* changes, then connection loss up to exhaustion
ParamPrompts == {<<[text |-> "a", weight |-> 1]>>}

InitParams == Constructed /\ watch = {"call", "fb"}

NextParams ==
    \/ UserInit
    \/ UserPlay
    \/ UserSetTempo
    \/ UserSetMusicConfig
    \/ UserSetWeightedPrompts(ParamPrompts)
    \/ ConnResolve
    \/ RunTask
    \/ OnSetupComplete
    \/ OnClose
    \/ ReconnectTimerFires

SpecParams == InitParams /\ [][NextParams]_vars

\* Prompts: prompt sets, filtering by the remote service, play / pause
InitPrompts == Constructed /\ watch = {"op", "call", "ret", "event", "send"}

NextPrompts ==
    \/ UserInit
    \/ UserPlay
    \/ UserPause
    \/ UserStop
    \/ UserSetWeightedPrompts(PromptSets)
    \/ ConnResolve
    \/ RunTask
    \/ OnSetupComplete
    \/ OnFilteredPrompt(Texts)
    \/ OnAudioChunks
    \/ LookaheadTimerFires

SpecPrompts == InitPrompts /\ [][NextPrompts]_vars

\* The scheduler: chunks of any duration arriving at any time on a
\* connection that stays up, with play / pause / stop
InitAudio == Constructed /\ watch = {"op", "start", "sched"}

NextAudio ==
    \/ UserInit
    \/ UserPlay
    \/ UserPause
    \/ UserStop
    \/ ConnResolve
    \/ RunTask
    \/ OnAudioChunk
    \/ LookaheadTimerFires
    \/ Tick

SpecAudio == InitAudio /\ [][NextAudio]_vars

\* The registry of filtered prompts over the life of the service: every
\* public operation, the filtering by the remote service, connection loss
\* and reconnection by the caller, within the delay of the first retry
FilterPrompts == {<<>>, <<[text |-> "a", weight |-> 1]>>}

InitFilter == Constructed /\ watch = {"op", "call", "event", "send"}

NextFilter ==
    \/ UserInit
    \/ UserPlay
    \/ UserPause
    \/ UserStop
    \/ UserSetWeightedPrompts(FilterPrompts)
    \/ UserSetTempo
    \/ UserSetMusicConfig
    \/ UserReconnect
    \/ ConnResolve
    \/ RunTask
    \/ OnSetupComplete
    \/ OnFilteredPrompt({"a"})
    \/ OnAudioChunks
    \/ LookaheadTimerFires
    \/ OnClose

SpecFilter == InitFilter /\ [][NextFilter]_vars

\* Decoding: messages of several chunks, some of them malformed, while the
\* service is played, paused and stopped
InitDecode == Constructed /\ watch = {"op", "call", "event", "start", "uncaught"}

NextDecode ==
    \/ UserInit
    \/ UserPlay
    \/ UserPause
    \/ UserStop
    \/ ConnResolve
    \/ RunTask
    \/ OnAudioMessage
    \/ LookaheadTimerFires
    \/ Tick

SpecDecode == InitDecode /\ [][NextDecode]_vars

\* Prompt enhancement: enhancePrompt with every prompt and every outcome of
\* the text model, before and after init
InitEnhance == Constructed /\ watch = {"op", "call", "ret", "uncaught"}

NextEnhance ==
    \/ UserInit
    \/ UserEnhancePrompt

SpecEnhance == InitEnhance /\ [][NextEnhance]_vars

\* An unreachable remote service: no connection is ever confirmed by a
\* setupComplete message and every socket closes.  A timer that is armed
\* fires whatever else happens meanwhile (strong fairness: the one
\* connection of the model may be taken when the delay elapses),
\* continuations whose promise has settled run.
InitRetry == Constructed /\ watch = {"op", "call", "event"}

NextRetry ==
    \/ UserInit
    \/ UserPlay
    \/ ConnResolve
    \/ ConnReject
    \/ RunTask
    \/ OnError
    \/ OnClose
    \/ ReconnectTimerFires

SpecRetry ==
    /\ InitRetry /\ [][NextRetry]_vars
    /\ SF_vars(ReconnectTimerFires)
    /\ WF_vars(RunTask)
    /\ WF_vars(OnClose)

\* The tempo of the fallback engine: the remote service fails until the
\* service has switched to the fallback synth, which is played, paused and
\* given a tempo
InitTempo == Constructed /\ watch = {"op"}

NextTempo ==
    \/ UserInit
    \/ UserPlay
    \/ UserPause
    \/ UserStop
    \/ UserSetTempo
    \/ ConnResolve
    \/ ConnReject
    \/ RunTask
    \/ OnClose
    \/ ReconnectTimerFires

SpecTempo == InitTempo /\ [][NextTempo]_vars

\* ------------------------------------------------------------- claims
LastOp(name) == out # <<>> /\ out[1] = <<"op", name>>

\* The entries of `o` that are calls of the method `name`
Calls(o, name) == {i \in DOMAIN o : o[i][1] = "call" /\ o[i][2] = name}

\* The reconnect timers armed in `o`
Armed(o) == {i \in DOMAIN o : o[i][1] = "setTimeout" /\ o[i][2] = "reconnect"}

Events(o, type) == {i \in DOMAIN o : o[i][1] = "event" /\ o[i][2] = type}

Sends(o) == {i \in DOMAIN o : o[i][1] = "send"}

Connects(o) == {i \in DOMAIN o : o[i][1] = "connect"}

\* C1 (as claimed): once activeEngine is 'fallback' it stays 'fallback' and
\* no further reconnect attempt is scheduled or executed, whatever transport
\* callbacks, timers and play/pause/stop calls follow (reconnect() is not
\* called by the caller in this specification).
C1_FallbackPermanent ==
    [][svc.activeEngine = "fallback" =>
          /\ svc'.activeEngine = "fallback"
          /\ Armed(out') = {}
          /\ ~(out'[1] = <<"op", "reconnectTimer">>)]_vars

C3_OneOutstanding ==
    Len(rtimers) + Cardinality({t \in tasks : t.timer}) <= 1

\* C4 (as claimed): stop() called while a reconnect timer is armed cancels
\* the attempt: the next macrotask opens no connection and leaves session
\* and sessionPromise null while PlaybackState stays 'stopped'.
C4_StopCancelsRetry ==
    [][(LastOp("stop") /\ rtimers # <<>> /\ svc.playbackState = "stopped") =>
          (svc'.playbackState = "stopped" =>
              /\ svc'.session = 0
              /\ svc'.sessionPromise = 0
              /\ Connects(out') = {})]_vars

\* C5 (as claimed): when the connect promise awaited by play() resolves after
\* a stop() or pause() has taken PlaybackState out of 'loading', the
\* continuation of play() assigns no session, sends nothing and leaves
\* PlaybackState as it is.
C5_LateCompletionIgnored ==
    [][(/\ \E t \in tasks : t.k = "play" /\ conns[t.c].st = "open"
        /\ svc.playbackState \in {"stopped", "paused"}
        /\ ~svc.useFallback) =>
          /\ svc'.session = svc.session
          /\ Sends(out') = {}
          /\ svc'.playbackState = svc.playbackState]_vars

\* C6 (amended): handleFinalFailure entered with PlaybackState 'playing' or
\* 'loading' starts the fallback engine and leaves PlaybackState 'playing';
\* entered with 'paused' or 'stopped' it leaves PlaybackState 'stopped' and
\* does not touch the fallback engine.
C6_SwitchPlayback ==
    [][\A i \in Calls(out', "handleFinalFailure") :
          IF out'[i][3] \in {"playing", "loading"}
          THEN /\ svc'.playbackState = "playing"
               /\ fb'.playbackState = "playing"
               /\ fb'.loopInterval /\ fb'.intervals >= 1
          ELSE /\ svc'.playbackState = "stopped"
               /\ fb' = fb]_vars

\* C6 (as claimed): as above, but entered with 'paused' PlaybackState
\* remains 'paused'.
C6_SwitchPreservesPaused ==
    [][\A i \in Calls(out', "handleFinalFailure") :
          IF out'[i][3] \in {"playing", "loading"}
          THEN /\ svc'.playbackState = "playing"
               /\ fb'.playbackState = "playing"
          ELSE /\ svc'.playbackState = out'[i][3]
               /\ fb' = fb]_vars

\* C6 witness: the switch happened from 'paused' and left 'stopped', the
\* fallback engine not started
C6_Witness ==
    \E i \in Calls(out, "handleFinalFailure") :
       /\ out[i][3] = "paused"
       /\ svc.playbackState = "stopped" /\ svc.useFallback
       /\ fb.playbackState = "stopped"

\* C7 (as claimed): when handleFinalFailure has run, the fallback engine has
\* been given this.prompts, and its tempo, density and brightness are the
\* last values the caller passed to setTempo / setMusicConfig.
C7_SwitchReplays ==
    \A i \in Calls(out, "handleFinalFailure") :
       /\ \E j \in DOMAIN out : out[j] = <<"fb", "setWeightedPrompts", svc.prompts>>
       /\ params.tempo # NONE => fb.tempo = params.tempo
       /\ params.density # NONE => fb.density = params.density
       /\ params.brightness # NONE => fb.brightness = params.brightness

\* The prompts of a set that are not filtered and have a positive weight, in
\* their order
RECURSIVE Unfiltered(_, _)
Unfiltered(prompts, filtered) ==
    IF prompts = <<>> THEN <<>>
    ELSE LET p == Head(prompts)
             rest == Unfiltered(Tail(prompts), filtered)
         IN IF p.text \notin filtered /\ p.weight > 0 THEN <<p>> \o rest ELSE rest

\* The prompt sets that setWeightedPrompts handed to the session in `o`
Forwarded(o) ==
    {j \in Sends(o) : o[j][2] = "setWeightedPrompts" /\ o[j][5] = "setWeightedPrompts"}

\* The return of the call of setWeightedPrompts entered at i
Ret(o, i) ==
    CHOOSE r \in DOMAIN o :
       /\ r > i /\ o[r][1] = "ret"
       /\ \A q \in DOMAIN o : (q > i /\ o[q][1] = "ret") => r <= q

\* C8: a call of setWeightedPrompts hands to the session only the
\* unfiltered, positive-weight prompts of the set, in their order; it hands
\* them over exactly once when a session exists and the remote engine is in
\* use, unless that subset is empty while 'playing'.
C8_ForwardsActive ==
    \A i \in Calls(out, "setWeightedPrompts") :
       LET e == out[i][3]
           active == Unfiltered(e.prompts, e.filteredPrompts)
       IN /\ \A j \in Forwarded(out) : out[j][4] = active /\ out[j][3] = e.session
          /\ (/\ e.session # 0
              /\ ~e.useFallback
              /\ ~(active = <<>> /\ e.playbackState = "playing"))
                => Cardinality(Forwarded(out)) = 1
          /\ (e.session = 0 \/ e.useFallback) => Forwarded(out) = {}

\* C8 witness: of two prompts, one filtered, only the other is forwarded
C8_Witness ==
    \E i \in Calls(out, "setWeightedPrompts") :
       /\ Len(out[i][3].prompts) = 2
       /\ out[i][3].prompts[1].text \in out[i][3].filteredPrompts
       /\ \E j \in Forwarded(out) : out[j][4] = <<out[i][3].prompts[2]>>

\* C9 (amended): setWeightedPrompts entered while 'playing' on the remote
\* engine with no unfiltered positive-weight prompt returns with
\* PlaybackState 'paused', has dispatched exactly one 'error' event, and has
\* sent no prompt set; what it sends, when a session exists, is the pause.
C9_EmptyPauses ==
    \A i \in Calls(out, "setWeightedPrompts") :
       LET e == out[i][3]
           r == Ret(out, i)
       IN (/\ e.playbackState = "playing"
           /\ ~e.useFallback
           /\ Unfiltered(e.prompts, e.filteredPrompts) = <<>>) =>
             /\ out[r][3] = "paused"
             /\ Cardinality({j \in Events(out, "error") : i < j /\ j < r}) = 1
             /\ \A j \in Sends(out) : (i < j /\ j < r) => out[j][2] = "pause"
             /\ e.session # 0 => \E j \in Sends(out) : i < j /\ j < r

\* C9 (as claimed): as above, and nothing at all is sent to the session
\* during the call.
C9_NothingSent ==
    \A i \in Calls(out, "setWeightedPrompts") :
       LET e == out[i][3]
           r == Ret(out, i)
       IN (/\ e.playbackState = "playing"
           /\ ~e.useFallback
           /\ Unfiltered(e.prompts, e.filteredPrompts) = <<>>) =>
             /\ out[r][3] = "paused"
             /\ Cardinality({j \in Events(out, "error") : i < j /\ j < r}) = 1
             /\ \A j \in Sends(out) : ~(i < j /\ j < r)

\* C9 witness: playing with a session, the only prompt of the set is filtered
C9_Witness ==
    \E i \in Calls(out, "setWeightedPrompts") :
       /\ out[i][3].playbackState = "playing"
       /\ out[i][3].session # 0
       /\ Len(out[i][3].prompts) = 1
       /\ out[i][3].prompts[1].weight > 0
       /\ out[i][3].prompts[1].text \in out[i][3].filteredPrompts
       /\ svc.playbackState = "paused"

\* C10 (as claimed): play() sends the session no prompt whose text is in
\* filteredPrompts.
C10_PlaySendsUnfiltered ==
    \A j \in Sends(out) :
       (out[j][2] = "setWeightedPrompts" /\ out[j][5] = "play") =>
          \A k \in DOMAIN out[j][4] : out[j][4][k].text \notin svc.filteredPrompts

\* The chunks started in `o`
Starts(o) == {i \in DOMAIN o : o[i][1] = "start"}

\* C11: of the chunks started since the last pause() / stop(), on a
\* connection that stays up, an earlier one ends no later than any later
\* one starts: starts are in arrival order and no two intervals
\* [start, start + duration) overlap.
C11_NoOverlap ==
    \A i, j \in DOMAIN sched :
       i < j => sched[i].start + sched[i].duration <= sched[j].start

\* C11 witness: three chunks, two arrived in a burst (back to back) and one
\* after starvation (a gap before it)
C11_Witness ==
    /\ Len(sched) = 3
    /\ sched[1].start + sched[1].duration = sched[2].start
    /\ sched[2].start + sched[2].duration < sched[3].start

\* C12 (amended): a chunk starts at now + bufferTime when nextStartTime is 0,
\* at now when nextStartTime is more than the tolerance behind now, and at
\* nextStartTime otherwise, which may be up to the tolerance earlier than
\* now; afterwards nextStartTime is that start plus the chunk's duration.
C12_StartTime ==
    [][\A i \in Starts(out') :
          LET start == out'[i][2]
              duration == out'[i][3]
          IN /\ start = (IF svc.nextStartTime = 0 THEN now + bufferTime
                         ELSE IF svc.nextStartTime < now - Tolerance THEN now
                         ELSE svc.nextStartTime)
             /\ start >= now - Tolerance
             /\ svc'.nextStartTime = start + duration]_vars

\* C12 (as claimed): a chunk starts at max(nextStartTime, now), the first one
\* after a reset at now + bufferTime, never earlier than now, and afterwards
\* nextStartTime is that start plus the chunk's duration.
C12_StartIsMax ==
    [][\A i \in Starts(out') :
          LET start == out'[i][2]
              duration == out'[i][3]
          IN /\ start = (IF svc.nextStartTime = 0 THEN now + bufferTime
                         ELSE IF svc.nextStartTime < now THEN now
                         ELSE svc.nextStartTime)
             /\ start >= now
             /\ svc'.nextStartTime = start + duration]_vars

\* C12 witness: a chunk has been started earlier than the current time
C12_Witness ==
    \E i \in Starts(out) : out[i][2] < now /\ svc.nextStartTime = out[i][2] + out[i][3]

\* C13: a chunk that arrives when nextStartTime is more than the tolerance
\* behind the current time starts exactly at the current time, and no chunk
\* starts more than the tolerance behind the current time.
C13_Clamp ==
    [][\A i \in Starts(out') :
          /\ (svc.nextStartTime # 0 /\ svc.nextStartTime < now - Tolerance)
                => out'[i][2] = now
          /\ out'[i][2] >= now - Tolerance]_vars

\* C13 witness: a chunk arrived after starvation and started at the current
\* time, later than the end of the chunk before it
C13_Witness ==
    /\ Len(sched) >= 2
    /\ sched[Len(sched)].start = now
    /\ sched[Len(sched) - 1].start + sched[Len(sched) - 1].duration < now - Tolerance

\* The macrotask of the step is the call `name`
Op(name) == out' # <<>> /\ out'[1] = <<"op", name>>

\* C14 (as claimed): on the remote engine PlaybackState becomes 'playing'
\* only when a chunk has been scheduled since the last pause() / stop(), and
\* the lookahead timer firing in 'loading' makes it 'playing'.
C14_PlayingAfterFirstChunk ==
    [][/\ (/\ svc'.playbackState = "playing"
           /\ svc.playbackState # "playing"
           /\ ~svc'.useFallback) => sched' # <<>>
       /\ (Op("lookaheadTimer") /\ svc.playbackState = "loading")
             => svc'.playbackState = "playing"]_vars

\* C15 (as claimed): play() on the remote engine changes nothing and sends
\* nothing when PlaybackState is 'playing', leaves 'stopped' when it is
\* 'loading', and from 'stopped' or 'paused' has a session or a connection
\* under way.
C15_PlayGuarded ==
    [][(Op("play") /\ ~svc.useFallback) =>
          /\ svc.playbackState = "playing" => (svc' = svc /\ Sends(out') = {})
          /\ svc.playbackState = "loading" => svc'.playbackState = "stopped"
          /\ (svc.playbackState \in {"stopped", "paused"} /\ svc.ai)
                => svc'.sessionPromise # 0]_vars

\* C16: pause() on the remote engine from 'playing' leaves PlaybackState
\* 'paused' and nextStartTime 0 and changes no other field of the service;
\* play() in the state so left, with a session, opens no connection, keeps
\* the session and tells it to play.
C16_PauseKeepsSession ==
    [][/\ (Op("pause") /\ svc.playbackState = "playing" /\ ~svc.useFallback) =>
             svc' = [svc EXCEPT !.playbackState = "paused", !.nextStartTime = 0]
       /\ (/\ Op("play") /\ svc.playbackState = "paused" /\ ~svc.useFallback
           /\ svc.session # 0 /\ svc.sessionPromise = svc.session
           /\ conns[svc.session].st = "open") =>
             /\ Connects(out') = {}
             /\ svc'.session = svc.session
             /\ svc'.sessionPromise = svc.sessionPromise
             /\ \E j \in Sends(out') : out'[j][2] = "play" /\ out'[j][3] = svc.session]_vars

\* C16 witness: play() has resumed on the session that pause() kept
C16_Witness ==
    /\ out # <<>> /\ out[1] = <<"op", "play">>
    /\ svc.session # 0 /\ svc.playbackState = "loading"
    /\ Connects(out) = {}
    /\ \E j \in Sends(out) : out[j][2] = "play" /\ out[j][3] = svc.session
    /\ svc.nextStartTime = 0

\* C17 (as claimed): after stop(), in every engine mode, PlaybackState is
\* 'stopped', the session that existed has been told to stop, session and
\* sessionPromise are null, the fallback loop is not running, nextStartTime
\* is 0, retryCount is 0 and isReconnecting is false.
C17_StopTearsDown ==
    [][Op("stop") =>
          /\ svc'.playbackState = "stopped"
          /\ (svc.session # 0 /\ ~svc.useFallback) =>
                \E j \in Sends(out') : out'[j][2] = "stop" /\ out'[j][3] = svc.session
          /\ svc'.session = 0 /\ svc'.sessionPromise = 0
          /\ ~fb'.loopInterval
          /\ svc'.nextStartTime = 0
          /\ svc'.retryCount = 0 /\ ~svc'.isReconnecting]_vars

\* The changes of PlaybackState the state machine lists
ListedEdges ==
    {<<"stopped", "loading">>, <<"stopped", "playing">>, <<"loading", "playing">>,
     <<"playing", "paused">>, <<"paused", "playing">>, <<"loading", "stopped">>,
     <<"playing", "stopped">>, <<"paused", "stopped">>}

\* C18 (as claimed): every change of the service's PlaybackState is a listed
\* one, 'stopped' to 'loading' on the remote engine and 'stopped' to
\* 'playing' on the fallback engine only.
C18_ListedTransitions ==
    [][svc'.playbackState # svc.playbackState =>
          /\ <<svc.playbackState, svc'.playbackState>> \in ListedEdges
          /\ (svc.playbackState = "stopped" /\ svc'.playbackState = "loading")
                => ~svc.useFallback
          /\ (svc.playbackState = "stopped" /\ svc'.playbackState = "playing")
                => svc'.useFallback]_vars

\* C19 (as claimed): while the fallback engine is in use the service's
\* PlaybackState is the fallback engine's own.
C19_FallbackStateAgrees ==
    svc.useFallback => svc.playbackState = fb.playbackState

\* The payloads of the events of `type` dispatched on the service in `o`
Payloads(o, type) ==
    LET es == SelectSeq(o, LAMBDA e : e[1] = "event" /\ e[2] = type)
    IN [i \in DOMAIN es |-> es[i][3]]

\* The last element of a non-empty sequence
Last(q) == q[Len(q)]

C21_RetryCountBounded ==
    /\ 0 <= svc.retryCount /\ svc.retryCount <= maxRetries
    /\ LastOp("setupComplete") => (svc.retryCount = 0 /\ ~svc.isReconnecting)

\* C21 witness: a setupComplete message was processed while a reconnect
\* timer armed by an earlier failure is still pending
C21_Witness ==
    /\ LastOp("setupComplete")
    /\ rtimers # <<>>
    /\ svc.retryCount = 0 /\ ~svc.isReconnecting

\* C22 (as claimed): when the reconnect() called by a retry timer returns
\* and no setupComplete has been received on its connection,
\* handleConnectionFailure is invoked.
C22_UnconfirmedAttemptFails ==
    [][\A t \in tasks :
          (/\ t.timer /\ Runnable(t)
           /\ ~(\E u \in tasks' : u.timer)
           /\ ~conns[t.c].setup) =>
             Calls(out', "handleConnectionFailure") # {}]_vars

C30_NoKeyUsesFallback ==
    [][(Op("play") /\ ~svc.ai) =>
          /\ Connects(out') = {}
          /\ svc'.activeEngine = "fallback"
          /\ fb'.playbackState = "playing"]_vars

\* C26 (as claimed): a filteredPrompt message received while 'playing'
\* leaves PlaybackState unchanged when an unfiltered positive-weight prompt
\* remains, and when it filters the last one PlaybackState leaves 'playing'
\* and an 'error' event is dispatched.
C26_FilterStopsWhenEmpty ==
    [][(Op("filteredPrompt") /\ svc.playbackState = "playing") =>
          IF Unfiltered(svc.prompts, svc'.filteredPrompts) # <<>>
          THEN svc'.playbackState = "playing"
          ELSE Unfiltered(svc.prompts, svc.filteredPrompts) # <<>> =>
                  /\ svc'.playbackState # "playing"
                  /\ Events(out', "error") # {}]_vars

\* C24: no step removes a text from filteredPrompts, and a filteredPrompt
\* message adds its text and dispatches one filtered-prompt event carrying
\* it.
C24_FilteredMonotone ==
    [][/\ svc.filteredPrompts \subseteq svc'.filteredPrompts
       /\ Op("filteredPrompt") =>
             \E text \in Texts :
                /\ svc'.filteredPrompts = svc.filteredPrompts \cup {text}
                /\ Payloads(out', "filtered-prompt") = <<text>>]_vars

\* C24 witness: a text was filtered, and is still filtered after the prompt
\* set was replaced, playback stopped and the connection lost
C24_Witness ==
    /\ LastOp("onclose")
    /\ svc.filteredPrompts = {"a"}
    /\ svc.prompts = <<>> /\ svc.playbackState = "stopped"

\* C25 (as claimed): when reconnect() has established the new session,
\* filteredPrompts is empty.
C25_ReconnectClearsFilter ==
    [][\A t \in tasks :
          (t.k = "rc1" /\ Runnable(t) /\ conns[t.c].st = "open") =>
             svc'.filteredPrompts = {}]_vars

\* What play() sent to the session in `o` before it told it to play
SentBeforePlay(o) ==
    {i \in Sends(o) :
        /\ o[i][2] = "setWeightedPrompts" /\ o[i][5] = "play"
        /\ \E j \in Sends(o) : i < j /\ o[j][2] = "play" /\ o[j][5] = "play"}

\* C27 (amended): setWeightedPrompts called on the remote engine while no
\* session exists stores the set and sends nothing; it changes nothing else
\* and dispatches no error, unless PlaybackState is 'playing' and the set
\* has no unfiltered positive-weight prompt: then it dispatches one 'error'
\* event and pauses.  A play() that tells the session to play has sent it
\* this.prompts before, when this.prompts is not empty, and nothing before
\* when it is empty.
C27_DeferredPrompts ==
    [][/\ (Op("setWeightedPrompts") /\ svc.session = 0 /\ ~svc.useFallback) =>
             \A i \in Calls(out', "setWeightedPrompts") :
                LET prompts == out'[i][3].prompts
                IN /\ svc'.prompts = prompts
                   /\ Sends(out') = {}
                   /\ IF /\ svc.playbackState = "playing"
                         /\ Unfiltered(prompts, svc.filteredPrompts) = <<>>
                      THEN /\ Cardinality(Events(out', "error")) = 1
                           /\ svc'.playbackState = "paused"
                      ELSE /\ Events(out', "error") = {}
                           /\ svc' = [svc EXCEPT !.prompts = prompts]
       /\ \A j \in Sends(out') :
             (out'[j][2] = "play" /\ out'[j][5] = "play") =>
                IF svc.prompts # <<>>
                THEN /\ Cardinality(SentBeforePlay(out')) = 1
                     /\ \A i \in SentBeforePlay(out') :
                           out'[i][4] = svc.prompts /\ out'[i][3] = out'[j][3]
                ELSE SentBeforePlay(out') = {}]_vars

\* C27 (as claimed): setWeightedPrompts called while no session exists
\* stores the set, dispatches no error and sends nothing; a play() that
\* tells the session to play has sent it the stored set before.
C27_DeferredSilently ==
    [][/\ (Op("setWeightedPrompts") /\ svc.session = 0 /\ ~svc.useFallback) =>
             \A i \in Calls(out', "setWeightedPrompts") :
                /\ svc'.prompts = out'[i][3].prompts
                /\ Sends(out') = {}
                /\ Events(out', "error") = {}
       /\ \A j \in Sends(out') :
             (out'[j][2] = "play" /\ out'[j][5] = "play" /\ svc.prompts # <<>>) =>
                \E i \in SentBeforePlay(out') : out'[i][4] = svc.prompts]_vars

\* C27 witness: the session was lost while 'playing'; setWeightedPrompts
\* with an empty set dispatched an error and paused
C27_Witness ==
    /\ LastOp("setWeightedPrompts")
    /\ \E i \in Calls(out, "setWeightedPrompts") :
          /\ out[i][3].session = 0 /\ ~out[i][3].useFallback
          /\ out[i][3].playbackState = "playing"
          /\ out[i][3].prompts = <<>>
    /\ Events(out, "error") # {}
    /\ svc.playbackState = "paused" /\ svc.prompts = <<>>

\* C28 (as claimed): setTempo on the remote engine sends nothing and leaves
\* PlaybackState as it is, and a play() that tells the session to play has
\* given it the last tempo the caller set.
C28_TempoOnNextPlay ==
    [][/\ (Op("setTempo") /\ ~svc.useFallback) =>
             /\ Sends(out') = {}
             /\ svc'.playbackState = svc.playbackState
       /\ \A j \in Sends(out') :
             (/\ out'[j][2] = "play" /\ out'[j][5] = "play"
              /\ params.tempo # NONE) =>
                \E i \in Sends(out') :
                   /\ i < j
                   /\ out'[i][2] = "setMusicGenerationConfig"
                   /\ out'[i][4] = [bpm |-> params.tempo]]_vars

\* C29 (as claimed): setTempo(bpm) on the fallback engine while it plays
\* stores bpm and leaves exactly one step timer running, started by the
\* call, of 15 / bpm seconds; while it does not play it changes the stored
\* tempo only.
C29_TempoRestartsClock ==
    [][(Op("setTempo") /\ svc.useFallback) =>
          IF fb.playbackState = "playing"
          THEN /\ fb'.tempo = params'.tempo
               /\ fb'.loopInterval
               /\ fb'.periods = <<15000000 \div params'.tempo>>
          ELSE fb' = [fb EXCEPT !.tempo = params'.tempo]]_vars

\* The chunks of a message that have data and decode, in their order
RECURSIVE Decoded(_)
Decoded(audioChunks) ==
    IF audioChunks = <<>> THEN <<>>
    ELSE IF Decodable(Head(audioChunks))
         THEN <<Head(audioChunks)>> \o Decoded(Tail(audioChunks))
         ELSE Decoded(Tail(audioChunks))

\* C31 (as claimed): a message received while 'loading' or 'playing' has
\* every chunk that decodes scheduled, in order, whatever chunks of it fail
\* to decode; PlaybackState and the session are unchanged, no error event is
\* dispatched and no exception leaves the handler.
C31_BadChunkDropped ==
    [][\A i \in Calls(out', "processAudioChunks") :
          out'[i][3].playbackState \in {"loading", "playing"} =>
             /\ Cardinality(Starts(out')) = Len(Decoded(out'[i][3].audioChunks))
             /\ svc'.playbackState = svc.playbackState
             /\ svc'.session = svc.session
             /\ Events(out', "error") = {}
             /\ \A j \in DOMAIN out' : out'[j] # <<"uncaught">>]_vars

\* The public operations of the playback engine
PublicOps ==
    {"play", "pause", "stop", "playPause", "setWeightedPrompts", "setTempo",
     "setMusicConfig"}

\* C32 (as claimed): no public operation lets an exception escape to its
\* caller, in any state.
C32_NoThrow ==
    [][(\E name \in PublicOps : Op(name)) =>
          \A j \in DOMAIN out' : out'[j] # <<"uncaught">>]_vars

\* C33: enhancePrompt returns basePrompt unchanged when the service is not
\* initialised or the call of the text model fails, and in no case lets an
\* exception escape: every call returns a string.
C33_EnhanceFallsBack ==
    \A i \in Calls(out, "enhancePrompt") :
       LET e == out[i][3]
       IN /\ \A j \in DOMAIN out : out[j] # <<"uncaught">>
          /\ \E j \in DOMAIN out :
                /\ j > i /\ out[j][1] = "ret" /\ out[j][3] \in Seq(Chars)
                /\ (~e.ai \/ e.reply.kind = "reject") => out[j][3] = e.basePrompt

\* C33 witness: an initialised service, the call failed, and a prompt that
\* trimming and unquoting would change came back unchanged
C33_Witness ==
    \E i \in Calls(out, "enhancePrompt") :
       /\ out[i][3].ai /\ out[i][3].reply.kind = "reject"
       /\ out[i][3].basePrompt = <<" ", "'", "a">>
       /\ out[Len(out)] = <<"ret", "enhancePrompt", <<" ", "'", "a">>>>

\* C34 (as claimed): while activeEngine is 'lyria' the fallback synth is
\* not playing and none of its step timers runs, and while activeEngine is
\* 'fallback' the service holds no remote session.
C34_OneEngine ==
    /\ svc.activeEngine = "lyria" =>
          /\ fb.playbackState # "playing"
          /\ ~fb.loopInterval /\ fb.intervals = 0
    /\ svc.activeEngine = "fallback" => svc.session = 0

\* C35 (as claimed): when the connection of a reconnect() begun while
\* 'playing' has opened and reconnect() continues, still 'playing' and with
\* an active prompt, it leaves this.session the new session, has sent it
\* the prompts and has told it to play.
C35_ReconnectResumes ==
    [][\A t \in tasks :
          (/\ t.k = "rc1" /\ t.wasPlaying
           /\ Runnable(t) /\ conns[t.c].st = "open"
           /\ svc.playbackState = "playing" /\ ~svc.useFallback
           /\ Unfiltered(svc.prompts, svc.filteredPrompts) # <<>>) =>
             /\ svc'.session = t.c
             /\ \E j \in Sends(out') :
                   out'[j][2] = "setWeightedPrompts" /\ out'[j][3] = t.c
             /\ \E j \in Sends(out') : out'[j][2] = "play" /\ out'[j][3] = t.c]_vars

\* C36: before and after every step useFallback is true exactly when
\* activeEngine is 'fallback', and
\* activeEngine becomes 'lyria' only in the step that processes a
\* setupComplete message, which always leaves it 'lyria'.
C36_EngineFlags ==
    [][/\ svc.useFallback <=> svc.activeEngine = "fallback"
       /\ svc'.useFallback <=> svc'.activeEngine = "fallback"
       /\ (svc'.activeEngine = "lyria" /\ svc.activeEngine # "lyria")
             => Op("setupComplete")
       /\ Op("setupComplete") =>
             (svc'.activeEngine = "lyria" /\ ~svc'.useFallback)]_vars

\* C36 witness: a setupComplete message took the service back from the
\* fallback engine
C36_Witness ==
    /\ LastOp("setupComplete")
    /\ Payloads(out, "engine-changed") = <<"lyria">>
    /\ svc.activeEngine = "lyria" /\ ~svc.useFallback
    /\ fb.audioContext

\* C37 (as claimed): a chunk that arrives while PlaybackState is 'paused'
\* or 'stopped', or while the fallback engine is in use, is discarded:
\* nextStartTime is unchanged and no lookahead timer is armed.
C37_ChunksGated ==
    [][(/\ Op("audioChunks")
        /\ (svc.playbackState \in {"paused", "stopped"} \/ svc.useFallback)) =>
          /\ svc'.nextStartTime = svc.nextStartTime
          /\ ltimers' = ltimers]_vars

\* C38 (as claimed): a lookahead timer that fires while 'loading' promotes
\* PlaybackState to 'playing' only if a chunk has been scheduled since the
\* last pause() / stop(), that is in the play cycle being loaded.
C38_StaleLookahead ==
    [][(/\ Op("lookaheadTimer")
        /\ svc.playbackState = "loading"
        /\ svc'.playbackState = "playing") => sched # <<>>]_vars

\* C39 (as claimed): at most one step timer of the fallback synth runs, and
\* none while its playbackState is 'paused' or 'stopped'.
C39_OneStepTimer ==
    /\ fb.intervals <= 1
    /\ fb.playbackState \in {"paused", "stopped"} => fb.intervals = 0

\* C40 (as claimed): with an unreachable remote service and timers that
\* fire, the 'reconnecting' events carry the attempt numbers 1, 2, ...,
\* maxRetries in order, the switch to the fallback engine happens when every
\* announced attempt has been made, and a handled transport failure is
\* eventually followed by activeEngine 'fallback'.
C40_RetriesEndInFallback ==
    /\ [][/\ \A i \in Events(out', "reconnecting") :
                /\ out'[i][3].attempt = svc.retryCount + 1
                /\ out'[i][3].attempt <= maxRetries
          /\ (Calls(out', "handleFinalFailure") # {} /\ ~svc.useFallback)
                => rtimers' = <<>>]_vars
    /\ (svc.retryCount > 0) ~> (svc.activeEngine = "fallback")

====
